---- MODULE Spec2Model ----
(***************************************************************************)
(* Model of extras/gdb/types.py: the pretty-printers of the korin          *)
(* containers and the Printer registry that dispatches on a type's tag.    *)
(*                                                                         *)
(* One formatter instance (or one Printer) is exercised per behaviour; the *)
(* host debugger is the environment that calls children(), next() and      *)
(* to_string().  A gdb.Value is modelled by what the code can observe of   *)
(* it: a pointer is an address, a dereferenced element is identified by    *)
(* the address it was read from, a node's data by the node it lives in.    *)
(***************************************************************************)
EXTENDS Integers, Sequences, FiniteSets, TLC

VARIABLES
    kind,       \* which formatter / object the behaviour exercises
    val,        \* the fields the formatter's __init__ extracted from the value
    mem,        \* the inspected memory snapshot (node fields)
    it,         \* state of the child iterator / generator
    out,        \* the child entries returned so far, in order
    reads,      \* addresses dereferenced so far, in order
    pc,         \* "init" | "iter" | "stopped" | "raised"
    summary,    \* result of to_string(), NoSummary before the call
    fails,      \* number of next() calls that raised
    reg,        \* Printer: [subprinters, lookup_table]
    res         \* Printer: outcome of the last __call__

vars == <<kind, val, mem, it, out, reads, pc, summary, fails, reg, res>>

----------------------------------------------------------------------------
(* Bounds *)

PtrBits == 3        \* width of a pointer in the model
MaxCount == 3       \* largest Array count
MaxFail == 1        \* failed reads the host tolerates before it gives up
NumNodes == 3       \* list nodes in the memory snapshot
MaxOut == 6         \* children the host prints before it stops asking (print elements)
NumTreeNodes == 2   \* tree nodes in the memory snapshot
MaxLevels == 3      \* base levels of a Tuple value
MaxFields == 3      \* fields of one base level
MaxAdds == 2        \* registrations made on a Printer by its user

AddrSpace == 2 ^ PtrBits
Addrs == 0 .. (AddrSpace - 1)
ElemSizes == {1, 2}
Nodes == 1 .. NumNodes
NodePtrs == 0 .. NumNodes
TreeNodes == 1 .. NumTreeNodes
TreePtrs == 0 .. NumTreeNodes

NoSummary == <<"<not called>">>
NoIter == [tag |-> "none"]
NoMem == [tag |-> "none"]
NoVal == [tag |-> "none"]
NoReg == [tag |-> "none"]
NoRes == [tag |-> "none"]

----------------------------------------------------------------------------
(* '%d' % n  and  '[%d]' % n, as sequences of characters *)

Digit(d) == CASE d = 0 -> "0" [] d = 1 -> "1" [] d = 2 -> "2" [] d = 3 -> "3"
              [] d = 4 -> "4" [] d = 5 -> "5" [] d = 6 -> "6" [] d = 7 -> "7"
              [] d = 8 -> "8" [] d = 9 -> "9"

RECURSIVE Fmt_d(_)
Fmt_d(n) == IF n < 10 THEN <<Digit(n)>> ELSE Fmt_d(n \div 10) \o <<Digit(n % 10)>>

Label(idx) == <<"[">> \o Fmt_d(idx) \o <<"]">>

\* pointer + n, for a pointer to elements of size sz
PtrAdd(p, n, sz) == (p + n * sz) % AddrSpace

\* the value obtained by dereferencing address a
Elem(a) == <<"elem", a>>
\* the 'data' field of the node at n
Data(n) == <<"data", n>>

----------------------------------------------------------------------------
(* ArrayPrinter *)

ArrayPrinter_init(value) ==
    [buffer |-> value.buffer, count |-> value.count, capacity |-> value.capacity,
     elemType |-> value.elemType, elemSize |-> value.elemSize,
     is_string |-> (value.elemType = "char")]

ArrayIterator_init(begin, end) == [item |-> begin, end |-> end, idx |-> 0, plain |-> FALSE]

ArrayPrinter_children(self) ==
    ArrayIterator_init(self.buffer, PtrAdd(self.buffer, self.count, self.elemSize))

\* faulty variant: the label is formatted after the index was advanced
ArrayIterator_next_LabelAfter(self, sz, readOK) ==
    LET idx == self.idx
        s1 == [self EXCEPT !.idx = idx + 1]
    IN  IF s1.item = s1.end
        THEN [self |-> s1, ret |-> "stop", read |-> <<>>, entry |-> <<>>]
        ELSE IF ~readOK
        THEN [self |-> s1, ret |-> "raise", read |-> <<s1.item>>, entry |-> <<>>]
        ELSE [self |-> [s1 EXCEPT !.item = PtrAdd(s1.item, 1, sz)], ret |-> "yield",
              read |-> <<s1.item>>, entry |-> <<Label(s1.idx), Elem(s1.item)>>]

\* Iterator.__next__: the new iterator state, how the call ended, the address
\* it dereferenced and the entry it returned
ArrayIterator_next(self, sz, readOK) ==
    LET idx == self.idx
        s1 == [self EXCEPT !.idx = idx + 1]
    IN  IF s1.item = s1.end
        THEN [self |-> s1, ret |-> "stop", read |-> <<>>, entry |-> <<>>]
        ELSE IF ~readOK
        THEN [self |-> s1, ret |-> "raise", read |-> <<s1.item>>, entry |-> <<>>]
        ELSE [self |-> [s1 EXCEPT !.item = PtrAdd(s1.item, 1, sz)], ret |-> "yield",
              read |-> <<s1.item>>, entry |-> <<Label(idx), Elem(s1.item)>>]

ArrayPrinter_to_string(self) ==
    IF self.is_string
    THEN <<>>
    ELSE <<"Array ", self.elemType, "[">> \o Fmt_d(self.count)
            \o <<"]", " with max. capacity ">> \o Fmt_d(self.capacity)

----------------------------------------------------------------------------
(* ListPrinter *)

ListPrinter_init(value) ==
    [length |-> value.length, head_ptr |-> value.head, tail_ptr |-> value.tail,
     elemType |-> value.elemType]

ListIterator_init(begin, end) == [item |-> begin, end |-> end, idx |-> 0, plain |-> FALSE]

\* the empty Python list that children() returns for a null head
EmptyList == [item |-> 0, end |-> 0, idx |-> 0, plain |-> TRUE]

\* ListPrinter.children: the iterable, or "raise" when tail cannot be read
ListPrinter_children(self, m, readOK) ==
    IF self.head_ptr # 0
    THEN IF self.tail_ptr = 0 \/ ~readOK
         THEN [ret |-> "raise", read |-> <<self.tail_ptr>>, iter |-> NoIter]
         ELSE [ret |-> "ok", read |-> <<self.tail_ptr>>,
               iter |-> ListIterator_init(self.head_ptr, m.next[self.tail_ptr])]
    ELSE [ret |-> "ok", read |-> <<>>, iter |-> EmptyList]

\* faulty variant: the walk ends at the null reference instead of one past tail
ListIterator_next_ToNull(self, m, readOK) ==
    LET idx == self.idx
        s1 == [self EXCEPT !.idx = idx + 1]
    IN  IF s1.plain \/ s1.item = 0
        THEN [self |-> s1, ret |-> "stop", read |-> <<>>, entry |-> <<>>]
        ELSE IF ~readOK
        THEN [self |-> s1, ret |-> "raise", read |-> <<s1.item>>, entry |-> <<>>]
        ELSE [self |-> [s1 EXCEPT !.item = m.next[s1.item]], ret |-> "yield",
              read |-> <<s1.item>>, entry |-> <<Label(idx), Data(s1.item)>>]

\* Iterator.__next__ (and the end of the empty list's own iterator)
ListIterator_next(self, m, readOK) ==
    LET idx == self.idx
        s1 == [self EXCEPT !.idx = idx + 1]
    IN  IF self.plain
        THEN [self |-> self, ret |-> "stop", read |-> <<>>, entry |-> <<>>]
        ELSE IF s1.item = s1.end
        THEN [self |-> s1, ret |-> "stop", read |-> <<>>, entry |-> <<>>]
        ELSE IF s1.item = 0 \/ ~readOK
        THEN [self |-> s1, ret |-> "raise", read |-> <<s1.item>>, entry |-> <<>>]
        ELSE [self |-> [s1 EXCEPT !.item = m.next[s1.item]], ret |-> "yield",
              read |-> <<s1.item>>, entry |-> <<Label(idx), Data(s1.item)>>]

ListPrinter_to_string(self) ==
    <<"List ", self.elemType, "[">> \o Fmt_d(self.length) \o <<"]">>

----------------------------------------------------------------------------
(* The Array and List formatters under the host's calls *)

ArrayValues ==
    {v \in [buffer : Addrs, count : 0 .. MaxCount, capacity : {0, MaxCount},
            elemType : {"int", "char"}, elemSize : ElemSizes] :
        \* the array object fits in the address space
        v.count * v.elemSize < AddrSpace}

ListValues ==
    [head : NodePtrs, tail : NodePtrs, length : {0, NumNodes}, elemType : {"int"}]

InitSeq ==
    /\ kind \in {"Array", "List"}
    /\ IF kind = "Array"
       THEN /\ \E v \in ArrayValues : val = ArrayPrinter_init(v)
            /\ mem = NoMem
       ELSE /\ \E v \in ListValues : val = ListPrinter_init(v)
            /\ mem \in [next : [Nodes -> NodePtrs]]
    /\ it = NoIter
    /\ out = <<>>
    /\ reads = <<>>
    /\ pc = "init"
    /\ summary = NoSummary
    /\ fails = 0
    /\ reg = NoReg
    /\ res = NoRes

ArrayChildren ==
    /\ kind = "Array" /\ pc = "init"
    /\ it' = ArrayPrinter_children(val)
    /\ pc' = "iter"
    /\ UNCHANGED <<kind, val, mem, out, reads, summary, fails, reg, res>>

\* the effect of one next() call on the formatter's observable state
ApplyNext(r) ==
    /\ r.ret = "yield" => Len(out) < MaxOut
    /\ r.ret = "raise" => fails < MaxFail
    /\ it' = r.self
    /\ out' = IF r.ret = "yield" THEN Append(out, r.entry) ELSE out
    /\ reads' = reads \o r.read
    /\ pc' = IF r.ret = "stop" THEN "stopped" ELSE "iter"
    /\ fails' = IF r.ret = "raise" THEN fails + 1 ELSE fails

ArrayNext ==
    /\ kind = "Array" /\ pc = "iter"
    /\ \E readOK \in BOOLEAN : ApplyNext(ArrayIterator_next(it, val.elemSize, readOK))
    /\ UNCHANGED <<kind, val, mem, summary, reg, res>>

ArrayToString ==
    /\ kind = "Array" /\ summary = NoSummary
    /\ summary' = ArrayPrinter_to_string(val)
    /\ UNCHANGED <<kind, val, mem, it, out, reads, pc, fails, reg, res>>

ListChildren ==
    /\ kind = "List" /\ pc = "init"
    /\ \E readOK \in BOOLEAN :
        LET r == ListPrinter_children(val, mem, readOK)
        IN  /\ it' = r.iter
            /\ reads' = reads \o r.read
            /\ pc' = IF r.ret = "ok" THEN "iter" ELSE "raised"
    /\ UNCHANGED <<kind, val, mem, out, summary, fails, reg, res>>

ListNext ==
    /\ kind = "List" /\ pc = "iter"
    /\ \E readOK \in BOOLEAN : ApplyNext(ListIterator_next(it, mem, readOK))
    /\ UNCHANGED <<kind, val, mem, summary, reg, res>>

ListToString ==
    /\ kind = "List" /\ summary = NoSummary
    /\ summary' = ListPrinter_to_string(val)
    /\ UNCHANGED <<kind, val, mem, it, out, reads, pc, fails, reg, res>>

NextSeq ==
    \/ ArrayChildren
    \/ ArrayNext
    \/ ArrayToString
    \/ ListChildren
    \/ ListNext
    \/ ListToString

SpecSeq == InitSeq /\ [][NextSeq]_vars

----------------------------------------------------------------------------
(* make_node_iterator, make_tree_iterator, MapPrinter, SetPrinter *)

\* make_node_iterator, resumed: one pass of its while loop up to the yield
make_node_iterator(node_ptr, m) ==
    IF node_ptr # 0
    THEN [ret |-> "yield", node_ptr |-> m.next[node_ptr], read |-> <<node_ptr>>,
          value |-> Data(node_ptr)]
    ELSE [ret |-> "stop", node_ptr |-> node_ptr, read |-> <<>>, value |-> <<>>]

\* the 'while node['left'] != 0' loop: the nodes it dereferences after the
\* root, ending with the leftmost one; fuel runs out only on a cycle of left
\* references, where the loop never ends
RECURSIVE LeftDescent(_, _, _)
LeftDescent(m, node_ptr, fuel) ==
    IF m.left[node_ptr] = 0 THEN <<>>
    ELSE IF fuel = 0 THEN <<0>>
    ELSE <<m.left[node_ptr]>> \o LeftDescent(m, m.left[node_ptr], fuel - 1)

\* faulty variant: the walk starts at the root instead of the leftmost node
make_tree_iterator_FromRoot(g, tree, m) ==
    IF g.started
    THEN LET r == make_node_iterator(g.node_ptr, m)
         IN  [ret |-> r.ret, frame |-> [started |-> TRUE, node_ptr |-> r.node_ptr],
              read |-> r.read, value |-> r.value]
    ELSE IF tree.root = 0
    THEN [ret |-> "stop", frame |-> [started |-> TRUE, node_ptr |-> 0],
          read |-> <<>>, value |-> <<>>]
    ELSE LET r == make_node_iterator(tree.root, m)
         IN  [ret |-> r.ret, frame |-> [started |-> TRUE, node_ptr |-> r.node_ptr],
              read |-> <<tree.root>> \o r.read, value |-> r.value]

\* make_tree_iterator, resumed once from the generator frame g.
\* "hang": the descent loop never ends and the call does not return.
make_tree_iterator(g, tree, m) ==
    IF g.started
    THEN LET r == make_node_iterator(g.node_ptr, m)
         IN  [ret |-> r.ret, frame |-> [started |-> TRUE, node_ptr |-> r.node_ptr],
              read |-> r.read, value |-> r.value]
    ELSE IF tree.root = 0
    THEN [ret |-> "stop", frame |-> [started |-> TRUE, node_ptr |-> 0],
          read |-> <<>>, value |-> <<>>]
    ELSE LET d == LeftDescent(m, tree.root, NumTreeNodes)
             leftmost == IF d = <<>> THEN tree.root ELSE d[Len(d)]
         IN  IF leftmost = 0
             THEN [ret |-> "hang", frame |-> g,
                   read |-> <<tree.root>> \o SubSeq(d, 1, Len(d) - 1), value |-> <<>>]
             ELSE LET r == make_node_iterator(leftmost, m)
                  IN  [ret |-> r.ret,
                       frame |-> [started |-> TRUE, node_ptr |-> r.node_ptr],
                       read |-> <<tree.root>> \o d \o r.read, value |-> r.value]

NewTreeIterator == [started |-> FALSE, node_ptr |-> 0]

MapPrinter_init(value) ==
    [tree |-> value.tree, num_items |-> value.tree.numNodes,
     key_type |-> value.keyType, val_type |-> value.valType]

SetPrinter_init(value) ==
    [tree |-> value.tree, size |-> value.tree.numNodes, item_type |-> value.itemType]

\* the frame of a children() generator before its first resumption
NewChildren == [idx |-> 0, tree_it |-> NewTreeIterator, pair |-> <<>>]

First(pair) == <<"first", pair>>
Second(pair) == <<"second", pair>>

\* faulty variant: both entries of a pair carry the label of the first
MapPrinter_children_SameLabel(self, g, m) ==
    IF g.pair # <<>>
    THEN [self |-> [g EXCEPT !.pair = <<>>, !.idx = g.idx + 2], ret |-> "yield",
          read |-> <<>>, entry |-> <<Label(g.idx), Second(g.pair)>>]
    ELSE LET r == make_tree_iterator(g.tree_it, self.tree, m)
         IN  IF r.ret = "yield"
             THEN [self |-> [g EXCEPT !.tree_it = r.frame, !.pair = r.value],
                   ret |-> "yield", read |-> r.read,
                   entry |-> <<Label(g.idx), First(r.value)>>]
             ELSE [self |-> [g EXCEPT !.tree_it = r.frame], ret |-> r.ret,
                   read |-> r.read, entry |-> <<>>]

\* MapPrinter.children, resumed once: g.pair holds the pair whose 'second'
\* is still to be yielded
MapPrinter_children(self, g, m) ==
    IF g.pair # <<>>
    THEN [self |-> [g EXCEPT !.pair = <<>>, !.idx = g.idx + 2], ret |-> "yield",
          read |-> <<>>, entry |-> <<Label(g.idx + 1), Second(g.pair)>>]
    ELSE LET r == make_tree_iterator(g.tree_it, self.tree, m)
         IN  IF r.ret = "yield"
             THEN [self |-> [g EXCEPT !.tree_it = r.frame, !.pair = r.value],
                   ret |-> "yield", read |-> r.read,
                   entry |-> <<Label(g.idx + 0), First(r.value)>>]
             ELSE [self |-> [g EXCEPT !.tree_it = r.frame], ret |-> r.ret,
                   read |-> r.read, entry |-> <<>>]

\* SetPrinter.children, resumed once
SetPrinter_children(self, g, m) ==
    LET r == make_tree_iterator(g.tree_it, self.tree, m)
    IN  IF r.ret = "yield"
        THEN [self |-> [g EXCEPT !.tree_it = r.frame, !.idx = g.idx + 1],
              ret |-> "yield", read |-> r.read, entry |-> <<Label(g.idx), r.value>>]
        ELSE [self |-> [g EXCEPT !.tree_it = r.frame], ret |-> r.ret,
              read |-> r.read, entry |-> <<>>]

MapPrinter_to_string(self) ==
    <<"Map <", self.key_type, ", ", self.val_type, ">[">> \o Fmt_d(self.num_items) \o <<"]">>

SetPrinter_to_string(self) ==
    <<"Set ", self.item_type, "[">> \o Fmt_d(self.size) \o <<"]">>

----------------------------------------------------------------------------
(* The Map and Set formatters under the host's calls *)

TreeValues == [root : TreePtrs, numNodes : 0 .. NumTreeNodes]

InitTree ==
    /\ kind \in {"Map", "Set"}
    /\ \E t \in TreeValues :
        val = IF kind = "Map"
              THEN MapPrinter_init([tree |-> t, keyType |-> "int", valType |-> "char"])
              ELSE SetPrinter_init([tree |-> t, itemType |-> "int"])
    /\ mem \in [left : [TreeNodes -> TreePtrs], next : [TreeNodes -> TreePtrs]]
    /\ it = NoIter
    /\ out = <<>>
    /\ reads = <<>>
    /\ pc = "init"
    /\ summary = NoSummary
    /\ fails = 0
    /\ reg = NoReg
    /\ res = NoRes

\* children() of a generator function only creates the generator
TreeChildren ==
    /\ kind \in {"Map", "Set"} /\ pc = "init"
    /\ it' = NewChildren
    /\ pc' = "iter"
    /\ UNCHANGED <<kind, val, mem, out, reads, summary, fails, reg, res>>

ApplyResume(r) ==
    /\ r.ret = "yield" => Len(out) < MaxOut
    /\ it' = r.self
    /\ out' = IF r.ret = "yield" THEN Append(out, r.entry) ELSE out
    /\ reads' = reads \o r.read
    /\ pc' = CASE r.ret = "yield" -> "iter" [] r.ret = "stop" -> "stopped"
               [] r.ret = "hang" -> "hung"

MapNext ==
    /\ kind = "Map" /\ pc = "iter"
    /\ ApplyResume(MapPrinter_children(val, it, mem))
    /\ UNCHANGED <<kind, val, mem, summary, fails, reg, res>>

SetNext ==
    /\ kind = "Set" /\ pc = "iter"
    /\ ApplyResume(SetPrinter_children(val, it, mem))
    /\ UNCHANGED <<kind, val, mem, summary, fails, reg, res>>

TreeToString ==
    /\ kind \in {"Map", "Set"} /\ summary = NoSummary
    /\ summary' = IF kind = "Map" THEN MapPrinter_to_string(val)
                  ELSE SetPrinter_to_string(val)
    /\ UNCHANGED <<kind, val, mem, it, out, reads, pc, fails, reg, res>>

NextTree ==
    \/ TreeChildren
    \/ MapNext
    \/ SetNext
    \/ TreeToString

SpecTree == InitTree /\ [][NextTree]_vars

----------------------------------------------------------------------------
(* TuplePrinter *)

\* A Tuple value is the chain of its base levels: levels[i] is the number of
\* fields of level i (level 1 is the value's first field).  Field 0 of a
\* level is the next level while the chain lasts, and no record after it.
Field(level, k) == <<"field", level, k>>

TuplePrinter_init(value) == [levels |-> value.levels, targs |-> value.targs]

\* the generator's frame before its first resumption
NewTupleChildren == [started |-> FALSE, base |-> 0, idx |-> 0]

\* faulty variant: the payload of a two-field level is taken from its first field
TuplePrinter_children_FirstField(self, g) ==
    LET base == IF g.started THEN g.base ELSE 1
    IN  IF base = 0
        THEN [self |-> [g EXCEPT !.started = TRUE], ret |-> "stop", entry |-> <<>>]
        ELSE IF base > Len(self.levels) \/ self.levels[base] = 0
        THEN [self |-> [started |-> TRUE, base |-> 0, idx |-> g.idx], ret |-> "raise",
              entry |-> <<>>]
        ELSE IF self.levels[base] = 2
        THEN [self |-> [started |-> TRUE, base |-> base + 1, idx |-> g.idx + 1],
              ret |-> "yield", entry |-> <<Label(g.idx), Field(base, 0)>>]
        ELSE [self |-> [started |-> TRUE, base |-> 0, idx |-> g.idx],
              ret |-> "yield", entry |-> <<Label(g.idx), Field(base, 0)>>]

\* TuplePrinter.children, resumed once.  base = 0 stands for None.  The
\* assignments that follow a yield cannot fail and are folded into the
\* resumption that yields.  fields() raises on a value that is no record and
\* fields[0] on a record without fields; a generator that raised is finished.
TuplePrinter_children(self, g) ==
    LET base == IF g.started THEN g.base ELSE 1
    IN  IF base = 0
        THEN [self |-> [g EXCEPT !.started = TRUE], ret |-> "stop", entry |-> <<>>]
        ELSE IF base > Len(self.levels) \/ self.levels[base] = 0
        THEN [self |-> [started |-> TRUE, base |-> 0, idx |-> g.idx], ret |-> "raise",
              entry |-> <<>>]
        ELSE IF self.levels[base] = 2
        THEN [self |-> [started |-> TRUE, base |-> base + 1, idx |-> g.idx + 1],
              ret |-> "yield", entry |-> <<Label(g.idx), Field(base, 1)>>]
        ELSE [self |-> [started |-> TRUE, base |-> 0, idx |-> g.idx],
              ret |-> "yield", entry |-> <<Label(g.idx), Field(base, 0)>>]

\* ', '.join(names)
RECURSIVE Join(_)
Join(names) ==
    IF names = <<>> THEN <<>>
    ELSE IF Len(names) = 1 THEN names
    ELSE <<names[1], ", ">> \o Join(Tail(names))

TuplePrinter_to_string(self) ==
    <<"Tuple <">> \o Join(self.targs) \o <<">[">> \o Fmt_d(Len(self.targs)) \o <<"]">>

----------------------------------------------------------------------------
(* The Tuple formatter under the host's calls *)

SeqsUpTo(S, n) == UNION {[1 .. k -> S] : k \in 0 .. n}

TupleValues == [levels : SeqsUpTo(0 .. MaxFields, MaxLevels),
                targs : {[j \in 1 .. k |-> "int"] : k \in 0 .. MaxLevels}]

InitTuple ==
    /\ kind = "Tuple"
    /\ \E v \in TupleValues : val = TuplePrinter_init(v)
    /\ mem = NoMem
    /\ it = NoIter
    /\ out = <<>>
    /\ reads = <<>>
    /\ pc = "init"
    /\ summary = NoSummary
    /\ fails = 0
    /\ reg = NoReg
    /\ res = NoRes

TupleChildren ==
    /\ kind = "Tuple" /\ pc = "init"
    /\ it' = NewTupleChildren
    /\ pc' = "iter"
    /\ UNCHANGED <<kind, val, mem, out, reads, summary, fails, reg, res>>

TupleNext ==
    /\ kind = "Tuple" /\ pc = "iter"
    /\ LET r == TuplePrinter_children(val, it)
       IN  /\ it' = r.self
           /\ out' = IF r.ret = "yield" THEN Append(out, r.entry) ELSE out
           /\ pc' = CASE r.ret = "yield" -> "iter" [] r.ret = "stop" -> "stopped"
                      [] r.ret = "raise" -> "raised"
           /\ fails' = IF r.ret = "raise" THEN fails + 1 ELSE fails
    /\ UNCHANGED <<kind, val, mem, reads, summary, reg, res>>

TupleToString ==
    /\ kind = "Tuple" /\ summary = NoSummary
    /\ summary' = TuplePrinter_to_string(val)
    /\ UNCHANGED <<kind, val, mem, it, out, reads, pc, fails, reg, res>>

NextTuple ==
    \/ TupleChildren
    \/ TupleNext
    \/ TupleToString

SpecTuple == InitTuple /\ [][NextTuple]_vars

----------------------------------------------------------------------------
(* Printer, SubPrinter, build_korin_printer *)

\* Strings the code inspects character by character are sequences of
\* one-character strings.
nArray == <<"A", "r", "r", "a", "y">>
nStringBase == <<"S", "t", "r", "i", "n", "g", "B", "a", "s", "e">>
nList == <<"L", "i", "s", "t">>
nTuple == <<"T", "u", "p", "l", "e">>
nMap == <<"M", "a", "p">>
nSet == <<"S", "e", "t">>
nVec2 == <<"V", "e", "c", "2">>
nVec3 == <<"V", "e", "c", "3">>
nVec4 == <<"V", "e", "c", "4">>
nQuat == <<"Q", "u", "a", "t">>
nFoo == <<"F", "o", "o">>
nNsMap == <<"k", ":", ":", "M", "a", "p">>
nMa == <<"M", "a">>

\* \w
WordChars == {
    "a", "b", "c", "d", "e", "f", "g", "h", "i", "j", "k", "l", "m", "n",
    "o", "p", "q", "r", "s", "t", "u", "v", "w", "x", "y", "z", "A", "B",
    "C", "D", "E", "F", "G", "H", "I", "J", "K", "L", "M", "N", "O", "P",
    "Q", "R", "S", "T", "U", "V", "W", "X", "Y", "Z", "0", "1", "2", "3",
    "4", "5", "6", "7", "8", "9", "_"}

NoTag == <<"None">>
NoMatch == [matched |-> FALSE]

\* re.match('^([\w:]+)(<.*>)?$', typename): group 1 is tag[1..i], group 2 is
\* tag[i+1..j] or absent (j = i); '$' matches at the end and before a final
\* newline, '.' matches anything but a newline.  Of the ways to match, the
\* regex engine takes the longest group 1, then the longest group 2.
RegexSplits(typename) ==
    {ij \in (1 .. Len(typename)) \X (1 .. Len(typename)) :
        LET i == ij[1]
            j == ij[2]
        IN  /\ i <= j
            /\ \A k \in 1 .. i : typename[k] \in WordChars \cup {":"}
            /\ j > i => /\ typename[i + 1] = "<"
                        /\ typename[j] = ">"
                        /\ j >= i + 2
                        /\ \A k \in (i + 2) .. (j - 1) : typename[k] # "\n"
            /\ \/ j = Len(typename)
               \/ j = Len(typename) - 1 /\ typename[Len(typename)] = "\n"}

lookup_regex_match(typename) ==
    LET S == RegexSplits(typename)
    IN  IF S = {} THEN NoMatch
        ELSE LET best == CHOOSE ij \in S : \A o \in S :
                            \/ ij[1] > o[1]
                            \/ ij[1] = o[1] /\ ij[2] >= o[2]
             IN  [matched |-> TRUE, group1 |-> SubSeq(typename, 1, best[1]),
                  group2 |-> SubSeq(typename, best[1] + 1, best[2])]

\* A gdb.Type: the layers wrapped around a base type, outermost first, and
\* the base type's tag (NoTag for a type without one, such as int).
TypeCode(type) ==
    LET l == SelectSeq(type.layers, LAMBDA x : x # "CONST")
    IN  IF l # <<>> THEN l[1] ELSE IF type.tag = NoTag THEN "INT" ELSE "STRUCT"

RECURSIVE DropWhile(_, _)
DropWhile(l, S) == IF l # <<>> /\ l[1] \in S THEN DropWhile(Tail(l), S) ELSE l

\* Type.target() of a reference type
Type_target(type) == [type EXCEPT !.layers = Tail(DropWhile(@, {"CONST"}))]
Type_unqualified(type) == [type EXCEPT !.layers = DropWhile(@, {"CONST"})]
\* typedefs are stripped through the qualifiers put on them
Type_strip_typedefs(type) ==
    IF TypeCode(type) = "TYPEDEF"
    THEN [type EXCEPT !.layers = DropWhile(@, {"CONST", "TYPEDEF"})]
    ELSE type
Type_tag(type) == IF TypeCode(type) = "STRUCT" THEN type.tag ELSE NoTag

Printer_get_basic_type(type) ==
    LET t1 == IF TypeCode(type) = "REF" THEN Type_target(type) ELSE type
    IN  Type_tag(Type_strip_typedefs(Type_unqualified(t1)))

Printer_init(name) ==
    [name |-> name, subprinters |-> <<>>, lookup_table |-> [n \in {} |-> 0]]

SubPrinter_init(name, typeprinter) == [name |-> name, typeprinter |-> typeprinter]

\* faulty variant: a name already in the table keeps its first subprinter
Printer_add_KeepFirst(self, name, typeprinter) ==
    LET subprinter == SubPrinter_init(name, typeprinter)
    IN  [self EXCEPT
            !.subprinters = Append(@, subprinter),
            !.lookup_table = [n \in DOMAIN @ \cup {name} |->
                                 IF n \in DOMAIN @ THEN @[n] ELSE subprinter]]

Printer_add(self, name, typeprinter) ==
    LET subprinter == SubPrinter_init(name, typeprinter)
    IN  [self EXCEPT
            !.subprinters = Append(@, subprinter),
            !.lookup_table = [n \in DOMAIN @ \cup {name} |->
                                 IF n = name THEN subprinter ELSE @[n]]]

\* SubPrinter.__call__: the constructor's formatter, or the error it raises
SubPrinter_call(self, value, ctorResult) ==
    IF ctorResult = "ok"
    THEN [ret |-> "formatter", typeprinter |-> self.typeprinter, typename |-> self.name,
          value |-> value]
    ELSE [ret |-> ctorResult]

\* faulty variant: the lookup uses the whole tag instead of group 1
Printer_call_WholeTag(self, value, hasReferencedValue, ctorResult) ==
    LET typename == Printer_get_basic_type(value)
        match == lookup_regex_match(typename)
        value1 == IF TypeCode(value) = "REF" /\ hasReferencedValue
                  THEN Type_target(value) ELSE value
    IN  IF typename = NoTag THEN [ret |-> "None"]
        ELSE IF ~match.matched THEN [ret |-> "None"]
        ELSE IF typename \notin DOMAIN self.lookup_table THEN [ret |-> "None"]
        ELSE LET r == SubPrinter_call(self.lookup_table[typename], value1, ctorResult)
             IN  IF r.ret = "KeyError" THEN [ret |-> "None"] ELSE r

\* Printer.__call__: [ret |-> "None"], a formatter, or the error that escapes.
\* The except clause also sees a KeyError raised by the constructor.
Printer_call(self, value, hasReferencedValue, ctorResult) ==
    LET typename == Printer_get_basic_type(value)
        match == lookup_regex_match(typename)
        value1 == IF TypeCode(value) = "REF" /\ hasReferencedValue
                  THEN Type_target(value) ELSE value
    IN  IF typename = NoTag THEN [ret |-> "None"]
        ELSE IF ~match.matched THEN [ret |-> "None"]
        ELSE LET basename == match.group1
             IN  IF basename \notin DOMAIN self.lookup_table THEN [ret |-> "None"]
                 ELSE LET r == SubPrinter_call(self.lookup_table[basename], value1,
                                               ctorResult)
                      IN  IF r.ret = "KeyError" THEN [ret |-> "None"] ELSE r

KorinRegistrations ==
    << <<nArray, "ArrayPrinter">>, <<nStringBase, "StringPrinter">>,
       <<nList, "ListPrinter">>, <<nTuple, "TuplePrinter">>, <<nMap, "MapPrinter">>,
       <<nSet, "SetPrinter">>, <<nVec2, "VecPrinter">>, <<nVec3, "VecPrinter">>,
       <<nVec4, "VecPrinter">>, <<nQuat, "QuatPrinter">> >>

RECURSIVE AddAll(_, _)
AddAll(self, regs) ==
    IF regs = <<>> THEN self
    ELSE AddAll(Printer_add(self, regs[1][1], regs[1][2]), Tail(regs))

\* faulty variant: Vec3 is registered twice and Vec4 not at all
build_korin_printer_Vec3Twice ==
    AddAll(Printer_init("korin"),
           [i \in 1 .. 10 |-> IF i = 9 THEN KorinRegistrations[8]
                              ELSE KorinRegistrations[i]])

build_korin_printer == AddAll(Printer_init("korin"), KorinRegistrations)

----------------------------------------------------------------------------
(* A Printer under the calls of the module and of the host *)

Suffixes ==
    { <<>>,
      <<"<", "i", "n", "t", ">">>,
      <<"<", "i", "n", "t", ",", " ", "A", "r", "r", "a", "y", "<", "c", "h", "a", "r",
        ">", " ", ">">>,
      <<"<", "i", "n", "t">>,
      <<"<", "i", "n", "t", ">", "x">>,
      <<" ", "*">> }

TagNames == {nMap, nVec3, nFoo, nNsMap, nMa, <<>>}

Tags == {n \o x : n \in TagNames, x \in Suffixes} \cup {NoTag}

Layerings == { <<>>, <<"REF">>, <<"CONST">>, <<"TYPEDEF">>, <<"PTR">>,
               <<"REF", "TYPEDEF">>, <<"REF", "CONST">>, <<"TYPEDEF", "REF">> }

Values == [layers : Layerings, tag : Tags]

\* what a user of the class registers
UserNames == {nMap, nFoo}
UserPrinters == {"P", "Q"}

InitPrinter ==
    /\ kind = "Printer"
    /\ reg = Printer_init("korin")
    /\ pc = "new"
    /\ res = NoRes
    /\ val = NoVal
    /\ mem = NoMem
    /\ it = NoIter
    /\ out = <<>>
    /\ reads = <<>>
    /\ summary = NoSummary
    /\ fails = 0

\* the module's own initialisation of korin_printer
BuildKorinPrinter ==
    /\ kind = "Printer" /\ pc = "new"
    /\ reg' = build_korin_printer
    /\ pc' = "korin"
    /\ res' = NoRes
    /\ UNCHANGED <<kind, val, mem, it, out, reads, summary, fails>>

\* add() called on a Printer by a user of the class
Add ==
    /\ kind = "Printer" /\ pc \in {"new", "user"}
    /\ Len(reg.subprinters) < MaxAdds
    /\ \E name \in UserNames, typeprinter \in UserPrinters :
           reg' = Printer_add(reg, name, typeprinter)
    /\ pc' = "user"
    /\ res' = NoRes
    /\ UNCHANGED <<kind, val, mem, it, out, reads, summary, fails>>

\* the host resolves a value; the outcome is recorded with the value's type
\* until the host has taken it
Call ==
    /\ kind = "Printer" /\ pc \in {"korin", "user"} /\ res = NoRes
    /\ \E value \in Values, hasReferencedValue \in BOOLEAN,
          ctorResult \in {"ok", "error", "KeyError"} :
           /\ pc = "korin" => ctorResult # "KeyError"
           /\ res' = [type |-> value, ctorResult |-> ctorResult,
                      result |-> Printer_call(reg, value, hasReferencedValue, ctorResult)]
    /\ UNCHANGED <<kind, val, mem, it, out, reads, pc, summary, fails, reg>>

\* the host takes the outcome of the call and goes on to its next value
HostTakesResult ==
    /\ kind = "Printer" /\ res # NoRes
    /\ res' = NoRes
    /\ UNCHANGED <<kind, val, mem, it, out, reads, pc, summary, fails, reg>>

NextPrinter ==
    \/ BuildKorinPrinter
    \/ Add
    \/ Call
    \/ HostTakesResult

SpecPrinter == InitPrinter /\ [][NextPrinter]_vars

----------------------------------------------------------------------------
(* Properties of the Array and List formatters *)

\* the summary s states the size n in its "[n]" clause
ReportsSize(s, n) ==
    LET d == Fmt_d(n)
    IN  \E i \in 1 .. Len(s) :
            /\ s[i] = "["
            /\ i + Len(d) + 1 <= Len(s)
            /\ SubSeq(s, i + 1, i + Len(d)) = d
            /\ s[i + Len(d) + 1] = "]"

\* the node reached from p by following next i-1 times (0 once the chain ended)
RECURSIVE NthNode(_, _, _)
NthNode(m, p, i) == IF i <= 1 \/ p = 0 THEN p ELSE NthNode(m, m.next[p], i - 1)

\* the indices at which node n is reached from p
IndicesOf(m, p, n) == {i \in 1 .. NumNodes : NthNode(m, p, i) = n}
FirstIndexOf(m, p, n) == CHOOSE i \in IndicesOf(m, p, n) : \A j \in IndicesOf(m, p, n) : i <= j

\* position of an Array element inside [buffer, buffer + count)
ArrayPos(self, e) == ((e[2] - self.buffer + AddrSpace) % AddrSpace) \div self.elemSize

\* C1: without a failed read, the Array child iterator over [p, p+k) returns
\* ('[i]', element at p+i) for i = 0..k-1 in that order, does not end before
\* the k-th entry, signals the end right after it, and for k = 0 returns
\* nothing and dereferences nothing.
C1_ArrayWalk ==
    (kind = "Array" /\ pc \in {"iter", "stopped"}) =>
        /\ val.count = 0 => (out = <<>> /\ reads = <<>>)
        /\ fails = 0 =>
            /\ Len(out) <= val.count
            /\ \A j \in 1 .. Len(out) :
                   out[j] = <<Label(j - 1), Elem(PtrAdd(val.buffer, j - 1, val.elemSize))>>
            /\ reads = [j \in 1 .. Len(out) |-> PtrAdd(val.buffer, j - 1, val.elemSize)]
            /\ pc = "stopped" => Len(out) = val.count
            /\ pc = "iter" => ((it.item = it.end) <=> (Len(out) = val.count))

\* a whole array was walked, across the wrap of the address space
C1_Witness ==
    /\ kind = "Array" /\ pc = "stopped" /\ fails = 0
    /\ val.count = MaxCount /\ Len(out) = MaxCount
    /\ it.end < val.buffer

\* C2 as stated: a null head gives no children and no dereference; a list
\* whose tail is the N-th node from a non-null head gives exactly the N
\* entries ('[i]', data of the i-th node).
ListHasTail(self, m) ==
    self.head_ptr # 0 /\ self.tail_ptr # 0 /\ IndicesOf(m, self.head_ptr, self.tail_ptr) # {}

ListYieldsN(N) ==
    /\ \A j \in 1 .. Len(out) : out[j] = <<Label(j - 1), Data(NthNode(mem, val.head_ptr, j))>>
    /\ pc = "stopped" => Len(out) = N

C2_NullHead ==
    (kind = "List" /\ val.head_ptr = 0) =>
        /\ out = <<>> /\ reads = <<>> /\ pc # "raised"
        /\ pc = "iter" => it.plain

C2_AsStated ==
    /\ C2_NullHead
    /\ (kind = "List" /\ pc \in {"iter", "stopped"} /\ fails = 0 /\ ListHasTail(val, mem)) =>
           ListYieldsN(FirstIndexOf(mem, val.head_ptr, val.tail_ptr))

\* C2, amended: the same, for lists whose tail's next reference is not one
\* of the list's own N nodes (as when it is null).
TailNextOutside(self, m) ==
    LET N == FirstIndexOf(m, self.head_ptr, self.tail_ptr)
    IN  \A j \in 1 .. N : m.next[self.tail_ptr] # NthNode(m, self.head_ptr, j)

C2_ListWalk ==
    /\ C2_NullHead
    /\ (kind = "List" /\ pc \in {"iter", "stopped"} /\ fails = 0 /\ ListHasTail(val, mem)
            /\ TailNextOutside(val, mem)) =>
           LET N == FirstIndexOf(mem, val.head_ptr, val.tail_ptr)
           IN  /\ ListYieldsN(N)
               /\ Len(out) <= N
               /\ pc = "iter" => ((it.item = it.end) <=> (Len(out) = N))

\* a list of NumNodes nodes was walked to its end
C2_Witness ==
    /\ kind = "List" /\ pc = "stopped" /\ fails = 0
    /\ ListHasTail(val, mem) /\ TailNextOutside(val, mem)
    /\ FirstIndexOf(mem, val.head_ptr, val.tail_ptr) = NumNodes
    /\ Len(out) = NumNodes

\* C5 as stated: an Array with count = 0 has no children and a summary that
\* reports size 0, whatever its element type, buffer and capacity.
C5_EmptyArray ==
    (kind = "Array" /\ val.count = 0) =>
        /\ out = <<>>
        /\ pc = "iter" => it.item = it.end
        /\ summary # NoSummary => ReportsSize(summary, 0)

\* C8 as stated: whatever reads failed before, every entry the Array and List
\* iterators return carries the label of the position its child has in the
\* container.
ListWellFormed(self, m) ==
    /\ ListHasTail(self, m)
    /\ m.next[self.tail_ptr] = 0
    /\ Cardinality(IndicesOf(m, self.head_ptr, self.tail_ptr)) = 1

ChildPos(e) ==
    IF kind = "Array" THEN ArrayPos(val, e) ELSE FirstIndexOf(mem, val.head_ptr, e[2]) - 1

C8_IndependentChildren ==
    (kind = "Array" \/ (kind = "List" /\ ListWellFormed(val, mem))) =>
        \A j \in 1 .. Len(out) : out[j][1] = Label(ChildPos(out[j][2]))

----------------------------------------------------------------------------
(* Properties of the tree walk and of the Map and Set formatters *)

\* the left references from p, followed for at most fuel steps
RECURSIVE LeftChain(_, _, _)
LeftChain(m, p, fuel) ==
    IF p = 0 \/ fuel = 0 THEN <<>> ELSE <<p>> \o LeftChain(m, m.left[p], fuel - 1)

\* the chain of left references from the root ends at a node whose left is null
LeftFinite(tree, m) ==
    LET c == LeftChain(m, tree.root, NumTreeNodes)
    IN  tree.root # 0 /\ m.left[c[Len(c)]] = 0

LeftmostOf(tree, m) ==
    LET c == LeftChain(m, tree.root, NumTreeNodes) IN c[Len(c)]

\* the data values make_tree_iterator has yielded, read off the entries
TreeYielded ==
    IF kind = "Set"
    THEN [j \in 1 .. Len(out) |-> out[j][2]]
    ELSE [j \in 1 .. (Len(out) + 1) \div 2 |-> out[2 * j - 1][2][2]]

\* C3: with a null root the tree walk yields nothing, whatever numNodes says;
\* with a non-null root and a finite left chain it descends along left to
\* the leftmost node and yields the data of the nodes threaded by next from
\* there, in that order, ending exactly where next is null.
C3_TreeWalk ==
    (kind \in {"Map", "Set"} /\ pc \in {"iter", "stopped", "hung"}) =>
        /\ val.tree.root = 0 => (out = <<>> /\ reads = <<>> /\ pc # "hung")
        /\ LeftFinite(val.tree, mem) =>
            LET lm == LeftmostOf(val.tree, mem)
                y == TreeYielded
            IN  /\ pc # "hung"
                /\ \A j \in 1 .. Len(y) : y[j] = Data(NthNode(mem, lm, j))
                /\ pc = "stopped" => NthNode(mem, lm, Len(y) + 1) = 0
                /\ it.tree_it.started =>
                    /\ it.tree_it.node_ptr = NthNode(mem, lm, Len(y) + 1)
                    /\ reads = LeftChain(mem, val.tree.root, NumTreeNodes)
                                 \o [j \in 1 .. Len(y) |-> NthNode(mem, lm, j)]

\* the walk descended at least one left reference and ran to the end of a
\* thread of NumTreeNodes nodes
C3_Witness ==
    /\ kind = "Set" /\ pc = "stopped"
    /\ LeftFinite(val.tree, mem)
    /\ LeftmostOf(val.tree, mem) # val.tree.root
    /\ Len(out) = NumTreeNodes

\* numNodes nodes are threaded by next from the leftmost node
WellFormedTree(tree, m) ==
    /\ LeftFinite(tree, m)
    /\ tree.numNodes >= 1
    /\ \A j \in 1 .. tree.numNodes : NthNode(m, LeftmostOf(tree, m), j) # 0
    /\ NthNode(m, LeftmostOf(tree, m), tree.numNodes + 1) = 0

\* C4: over a well-formed tree of n nodes Set returns the n entries
\* ('[j]', j-th item) and Map the 2n entries ('[2j]', first of the j-th pair),
\* ('[2j+1]', second of the j-th pair).
C4_MapSetCounts ==
    (kind \in {"Map", "Set"} /\ pc \in {"iter", "stopped", "hung"}
        /\ WellFormedTree(val.tree, mem)) =>
        LET lm == LeftmostOf(val.tree, mem)
            n == val.tree.numNodes
        IN  /\ pc # "hung"
            /\ kind = "Set" =>
                /\ Len(out) <= n
                /\ \A j \in 1 .. Len(out) :
                       out[j] = <<Label(j - 1), Data(NthNode(mem, lm, j))>>
                /\ pc = "stopped" => Len(out) = n
            /\ kind = "Map" =>
                /\ Len(out) <= 2 * n
                /\ \A j \in 1 .. Len(out) :
                       out[j] = IF j % 2 = 1
                                THEN <<Label(j - 1), First(Data(NthNode(mem, lm, (j + 1) \div 2)))>>
                                ELSE <<Label(j - 1), Second(Data(NthNode(mem, lm, j \div 2)))>>
                /\ pc = "stopped" => (Len(out) = 2 * n /\ Len(out) % 2 = 0)

\* a Map over a well-formed tree of NumTreeNodes pairs was walked to its end
C4_Witness ==
    /\ kind = "Map" /\ pc = "stopped"
    /\ WellFormedTree(val.tree, mem)
    /\ val.tree.numNodes = NumTreeNodes
    /\ Len(out) = 2 * NumTreeNodes

----------------------------------------------------------------------------
(* Properties of the Tuple formatter *)

\* N >= 1 levels, two fields on each of the first N-1, one on the last
TupleShape(self) ==
    /\ Len(self.levels) >= 1
    /\ \A i \in 1 .. Len(self.levels) :
           self.levels[i] = IF i < Len(self.levels) THEN 2 ELSE 1

\* the levels that do not have exactly two fields
NotTwo(self) == {i \in 1 .. Len(self.levels) : self.levels[i] # 2}

\* C9: over N such levels children returns the N entries ('[i]', payload of
\* level i): field 1 of the two-field levels, field 0 of the last; and for
\* any value no entry comes from beyond the first level that does not have
\* exactly two fields.
C9_TupleWalk ==
    (kind = "Tuple" /\ pc \in {"iter", "stopped", "raised"}) =>
        /\ TupleShape(val) =>
            LET N == Len(val.levels)
            IN  /\ pc # "raised"
                /\ Len(out) <= N
                /\ \A j \in 1 .. Len(out) :
                       out[j] = <<Label(j - 1), Field(j, IF j < N THEN 1 ELSE 0)>>
                /\ pc = "stopped" => Len(out) = N
        /\ \A f \in NotTwo(val) :
               (\A g \in NotTwo(val) : f <= g) =>
                   /\ Len(out) <= f
                   /\ pc = "stopped" => (Len(out) = f /\ val.levels[f] # 0)
                   /\ pc = "raised" => (Len(out) = f - 1 /\ val.levels[f] = 0)

\* a chain of MaxLevels levels was walked to its end
C9_Witness ==
    /\ kind = "Tuple" /\ pc = "stopped"
    /\ TupleShape(val) /\ Len(val.levels) = MaxLevels
    /\ Len(out) = MaxLevels

----------------------------------------------------------------------------
(* Properties of the Printer *)

\* index of the first "<" of a tag, Len + 1 without one
FirstAngle(tag) ==
    IF \E k \in 1 .. Len(tag) : tag[k] = "<"
    THEN CHOOSE k \in 1 .. Len(tag) : tag[k] = "<" /\ \A i \in 1 .. (k - 1) : tag[i] # "<"
    ELSE Len(tag) + 1

\* the tag is an identifier, optionally followed by a clause "<...>"
IdentifierWithClause(tag) ==
    LET k == FirstAngle(tag)
    IN  /\ k > 1
        /\ \A i \in 1 .. (k - 1) : tag[i] \in WordChars \cup {":"}
        /\ k <= Len(tag) => tag[Len(tag)] = ">"

\* the tag without its trailing clause
IdentifierPortion(tag) == SubSeq(tag, 1, FirstAngle(tag) - 1)

Registered(self, name) == \E i \in 1 .. Len(self.subprinters) : self.subprinters[i].name = name

Dispatches(self, type) ==
    LET tag == Printer_get_basic_type(type)
    IN  /\ tag # NoTag
        /\ IdentifierWithClause(tag)
        /\ Registered(self, IdentifierPortion(tag))

RegistrationsOf(self, name) ==
    {i \in 1 .. Len(self.subprinters) : self.subprinters[i].name = name}

\* C7 as stated: a formatter is built by the constructor of the first
\* registration of its name.
C7_FirstWins ==
    (kind = "Printer" /\ res # NoRes /\ res.result.ret = "formatter") =>
        LET I == RegistrationsOf(reg, res.result.typename)
            first == CHOOSE i \in I : \A j \in I : i <= j
        IN  res.result.typeprinter = reg.subprinters[first].typeprinter

\* C7, amended: a formatter is built by the constructor of the last
\* registration of its name.
C7_LastWins ==
    (kind = "Printer" /\ res # NoRes /\ res.result.ret = "formatter") =>
        LET I == RegistrationsOf(reg, res.result.typename)
            last == CHOOSE i \in I : \A j \in I : i >= j
        IN  res.result.typeprinter = reg.subprinters[last].typeprinter

\* a name registered twice with different constructors was resolved
C7_Witness ==
    /\ kind = "Printer" /\ res # NoRes /\ res.result.ret = "formatter"
    /\ LET I == RegistrationsOf(reg, res.result.typename)
       IN  /\ Cardinality(I) = 2
           /\ \E i, j \in I : reg.subprinters[i].typeprinter # reg.subprinters[j].typeprinter

TenNames == {nArray, nStringBase, nList, nTuple, nMap, nSet, nVec2, nVec3, nVec4, nQuat}

RegistryIsTen ==
    /\ DOMAIN reg.lookup_table = TenNames
    /\ Len(reg.subprinters) = 10
    /\ \A name \in TenNames :
           /\ Cardinality(RegistrationsOf(reg, name)) = 1
           /\ \E i \in RegistrationsOf(reg, name) : reg.lookup_table[name] = reg.subprinters[i]

\* C10: once build_korin_printer has run the registry holds the ten names,
\* each registered once, and no call changes the table or the list.
C10_Registry ==
    /\ [](pc = "korin" => RegistryIsTen)
    /\ [][pc = "korin" => (reg' = reg /\ pc' = "korin")]_vars

\* after the build, a call whose constructor failed
C10_Witness ==
    /\ kind = "Printer" /\ pc = "korin" /\ res # NoRes
    /\ res.result.ret = "error"

====
